---- MODULE Spec2Model ----
(***************************************************************************)
(* Model of the tic-tac-toe engine (TicTacToeGame) and of the game area    *)
(* that routes commands to it (TicTacToeGameArea) of Covey.Town.           *)
(*                                                                         *)
(* The engine is a record; every engine method is an operator from the     *)
(* engine (and the call's arguments) to the engine after the call and the  *)
(* error the call throws ("ok" when it returns).  The area is the pair of  *)
(* its reference to the engine and its history; every handler is an        *)
(* operator on that pair.                                                  *)
(***************************************************************************)
EXTENDS Integers, Sequences, FiniteSets, TLC

VARIABLES
    areaGame,   \* TicTacToeGameArea._game: Undef, or the identity of the engine
    game,       \* the engine: state (status, moves, x, o, winner), _board,
                \* _previouslyPlayedPlayer, _players
    history,    \* TicTacToeGameArea._history
    last        \* the call handled last and what it gave its caller

vars == <<areaGame, game, history, last>>

\* ------------------------------------------------------------------ values

Undef == "undefined"

\* The error messages of lib/InvalidParametersError, by the names they are imported under.
GAME_OVER_MESSAGE == "GAME_OVER_MESSAGE"
GAME_NOT_IN_PROGRESS_MESSAGE == "GAME_NOT_IN_PROGRESS_MESSAGE"
INVALID_MOVE_MESSAGE == "INVALID_MOVE_MESSAGE"
MOVE_NOT_YOUR_TURN_MESSAGE == "MOVE_NOT_YOUR_TURN_MESSAGE"
BOARD_POSITION_NOT_EMPTY_MESSAGE == "BOARD_POSITION_NOT_EMPTY_MESSAGE"
PLAYER_ALREADY_IN_GAME_MESSAGE == "PLAYER_ALREADY_IN_GAME_MESSAGE"
PLAYER_NOT_IN_GAME_MESSAGE == "PLAYER_NOT_IN_GAME_MESSAGE"
GAME_FULL_MESSAGE == "GAME_FULL_MESSAGE"
GAME_ID_MISSMATCH_MESSAGE == "GAME_ID_MISSMATCH_MESSAGE"
INVALID_COMMAND_MESSAGE == "INVALID_COMMAND_MESSAGE"
Ok == "ok"

\* The players who send commands: ids, and the user name of each.
Players == {"p1", "p2", "p3"}
UserName(p) == CASE p = "p1" -> "alice" [] p = "p2" -> "bob" [] OTHER -> "carol"

\* The identity of the engine the area constructs, and one that is not it.
GameId == "g1"
OtherId == "g2"

\* ------------------------------------------------------------------ bounds

\* Of the moves of a move log, at most MaxSkips were made at another cell than the
\* first empty one in row-major order.
MaxSkips == 0
\* No command is handled that would take a score of the history above MaxScore.
MaxScore == 1
\* No command is handled by the area that would take the move log above MaxMoves moves.
MaxMoves == 3
\* A new match is looked for within MaxRestart commands of the end of a match.
MaxRestart == 4

\* ------------------------------------------------------------------ helpers

Range(s) == {s[i] : i \in 1..Len(s)}

RECURSIVE Filter(_, _)
\* this._players.filter(p => p.id !== id)
Filter(s, id) ==
    IF s = <<>> THEN <<>>
    ELSE IF Head(s) = id THEN Filter(Tail(s), id)
         ELSE <<Head(s)>> \o Filter(Tail(s), id)

Rows == 0..2
Cols == 0..2
EmptyBoard == [r \in Rows |-> [c \in Cols |-> ""]]

\* new TicTacToeGame(): the state given to super(), _board, _previouslyPlayedPlayer,
\* and the empty roster of Game.
NewGame ==
    [status |-> "WAITING_TO_START", moves |-> <<>>, x |-> Undef, o |-> Undef,
     winner |-> Undef, board |-> EmptyBoard, prev |-> "", players |-> <<>>]

\* What a call gives back: the engine after it and the error thrown (Ok: none).
Result(g, e) == [g |-> g, err |-> e]

\* ------------------------------------------------------------------ engine

\* _checkForWin without its check of the column.
_checkForWin_noColumn(board, row, col, gamePiece) ==
    \/ /\ board[row][0] = gamePiece
       /\ board[row][1] = gamePiece
       /\ board[row][2] = gamePiece
    \/ /\ (row = col \/ row + col = 2)
       /\ \/ /\ board[0][0] = gamePiece
             /\ board[1][1] = gamePiece
             /\ board[2][2] = gamePiece
          \/ /\ board[0][2] = gamePiece
             /\ board[1][1] = gamePiece
             /\ board[2][0] = gamePiece

_checkForWin(board, row, col, gamePiece) ==
    \/ /\ board[row][0] = gamePiece
       /\ board[row][1] = gamePiece
       /\ board[row][2] = gamePiece
    \/ /\ board[0][col] = gamePiece
       /\ board[1][col] = gamePiece
       /\ board[2][col] = gamePiece
    \/ /\ (row = col \/ row + col = 2)
       /\ \/ /\ board[0][0] = gamePiece
             /\ board[1][1] = gamePiece
             /\ board[2][2] = gamePiece
          \/ /\ board[0][2] = gamePiece
             /\ board[1][1] = gamePiece
             /\ board[2][0] = gamePiece

\* _checkForDraw that never finds the board full.
_checkForDraw_never(board) ==
    \E r \in Rows : \E c \in Cols : board[r][c] # board[r][c]

_checkForDraw(board) ==
    ~ \E r \in Rows : \E c \in Cols : board[r][c] = ""

\* The tail of applyMove with the move logged twice.
placeMove_logsTwice(g, playerID, move, gamePiece) ==
    LET b1 == [g.board EXCEPT ![move.row][move.col] = gamePiece]
        g1 == [g EXCEPT !.board = b1, !.moves = Append(Append(g.moves, move), move)]
        g2 == IF _checkForWin(b1, move.row, move.col, gamePiece)
              THEN [g1 EXCEPT !.status = "OVER", !.winner = playerID]
              ELSE g1
    IN  IF _checkForDraw(b1)
        THEN [g2 EXCEPT !.status = "OVER", !.winner = Undef]
        ELSE g2

\* The tail of applyMove, from the write of the board on: the move is placed and
\* logged, then the win check, then the draw check.
placeMove(g, playerID, move, gamePiece) ==
    LET b1 == [g.board EXCEPT ![move.row][move.col] = gamePiece]
        g1 == [g EXCEPT !.board = b1, !.moves = Append(g.moves, move)]
        g2 == IF _checkForWin(b1, move.row, move.col, gamePiece)
              THEN [g1 EXCEPT !.status = "OVER", !.winner = playerID]
              ELSE g1
    IN  IF _checkForDraw(b1)
        THEN [g2 EXCEPT !.status = "OVER", !.winner = Undef]
        ELSE g2

\* applyMove without its check that the cell is empty.
applyMove_noEmptyCheck(g, playerID, move) ==
    IF g.status = "OVER" \/ g.winner # Undef
    THEN Result(g, GAME_OVER_MESSAGE)
    ELSE IF g.status = "WAITING_TO_START"
    THEN Result(g, GAME_NOT_IN_PROGRESS_MESSAGE)
    ELSE IF move.row < 0 \/ move.row >= 3 \/ move.col < 0 \/ move.col >= 3
    THEN Result(g, INVALID_MOVE_MESSAGE)
    ELSE IF g.prev # "" /\ playerID = g.prev
    THEN Result(g, MOVE_NOT_YOUR_TURN_MESSAGE)
    ELSE
        LET g1 == [g EXCEPT !.prev = playerID]
            currentPlayer == playerID \in Range(g.players)
            even == Len(g.moves) % 2 = 0
            first == currentPlayer /\ even /\ move.gamePiece # "X"
        IN  IF first \/ (~first /\ ~even /\ move.gamePiece # "O")
            THEN Result(g1, MOVE_NOT_YOUR_TURN_MESSAGE)
            ELSE Result(placeMove(g1, playerID, move,
                                  IF currentPlayer /\ playerID = g.x THEN "X" ELSE "O"),
                        Ok)

applyMove(g, playerID, move) ==
    IF g.status = "OVER" \/ g.winner # Undef
    THEN Result(g, GAME_OVER_MESSAGE)
    ELSE IF g.status = "WAITING_TO_START"
    THEN Result(g, GAME_NOT_IN_PROGRESS_MESSAGE)
    ELSE IF move.row < 0 \/ move.row >= 3 \/ move.col < 0 \/ move.col >= 3
    THEN Result(g, INVALID_MOVE_MESSAGE)
    ELSE IF g.prev # "" /\ playerID = g.prev
    THEN Result(g, MOVE_NOT_YOUR_TURN_MESSAGE)
    ELSE
        LET g1 == [g EXCEPT !.prev = playerID]
            currentPlayer == playerID \in Range(g.players)
            even == Len(g.moves) % 2 = 0
            first == currentPlayer /\ even /\ move.gamePiece # "X"
        IN  IF first \/ (~first /\ ~even /\ move.gamePiece # "O")
            THEN Result(g1, MOVE_NOT_YOUR_TURN_MESSAGE)
            ELSE IF g.board[move.row][move.col] # ""
            THEN Result(g1, BOARD_POSITION_NOT_EMPTY_MESSAGE)
            ELSE Result(placeMove(g1, playerID, move,
                                  IF currentPlayer /\ playerID = g.x THEN "X" ELSE "O"),
                        Ok)

\* _join with the O slot written before the check that the game is full.
_join_writesBeforeFull(g, player) ==
    IF g.status = "OVER" \/ g.winner # Undef
    THEN Result(g, GAME_OVER_MESSAGE)
    ELSE IF player \in Range(g.players)
    THEN Result(g, PLAYER_ALREADY_IN_GAME_MESSAGE)
    ELSE IF g.x = Undef
    THEN Result([g EXCEPT !.x = player], Ok)
    ELSE IF g.o # Undef
    THEN Result([g EXCEPT !.o = player], GAME_FULL_MESSAGE)
    ELSE Result([g EXCEPT !.o = player, !.status = "IN_PROGRESS"], Ok)

\* _join with the check that the game is full made first.
_join_fullFirst(g, player) ==
    IF g.x # Undef /\ g.o # Undef
    THEN Result(g, GAME_FULL_MESSAGE)
    ELSE IF g.status = "OVER" \/ g.winner # Undef
    THEN Result(g, GAME_OVER_MESSAGE)
    ELSE IF player \in Range(g.players)
    THEN Result(g, PLAYER_ALREADY_IN_GAME_MESSAGE)
    ELSE IF g.x = Undef
    THEN Result([g EXCEPT !.x = player], Ok)
    ELSE Result([g EXCEPT !.o = player, !.status = "IN_PROGRESS"], Ok)

\* _join with the match started by the first player who joins.
_join_startsOnFirst(g, player) ==
    IF g.status = "OVER" \/ g.winner # Undef
    THEN Result(g, GAME_OVER_MESSAGE)
    ELSE IF player \in Range(g.players)
    THEN Result(g, PLAYER_ALREADY_IN_GAME_MESSAGE)
    ELSE IF g.x # Undef /\ g.o # Undef
    THEN Result(g, GAME_FULL_MESSAGE)
    ELSE IF g.x = Undef
    THEN Result([g EXCEPT !.x = player, !.status = "IN_PROGRESS"], Ok)
    ELSE Result([g EXCEPT !.o = player, !.status = "IN_PROGRESS"], Ok)

\* _join without its check that the game is full.
_join_noFullCheck(g, player) ==
    IF g.status = "OVER" \/ g.winner # Undef
    THEN Result(g, GAME_OVER_MESSAGE)
    ELSE IF player \in Range(g.players)
    THEN Result(g, PLAYER_ALREADY_IN_GAME_MESSAGE)
    ELSE IF g.x = Undef
    THEN Result([g EXCEPT !.x = player], Ok)
    ELSE Result([g EXCEPT !.o = player, !.status = "IN_PROGRESS"], Ok)

\* _join without its check that the player is already in the game.
_join_noAlreadyCheck(g, player) ==
    IF g.status = "OVER" \/ g.winner # Undef
    THEN Result(g, GAME_OVER_MESSAGE)
    ELSE IF g.x # Undef /\ g.o # Undef
    THEN Result(g, GAME_FULL_MESSAGE)
    ELSE IF g.x = Undef
    THEN Result([g EXCEPT !.x = player], Ok)
    ELSE Result([g EXCEPT !.o = player, !.status = "IN_PROGRESS"], Ok)

_join(g, player) ==
    IF g.status = "OVER" \/ g.winner # Undef
    THEN Result(g, GAME_OVER_MESSAGE)
    ELSE IF player \in Range(g.players)
    THEN Result(g, PLAYER_ALREADY_IN_GAME_MESSAGE)
    ELSE IF g.x # Undef /\ g.o # Undef
    THEN Result(g, GAME_FULL_MESSAGE)
    ELSE IF g.x = Undef
    THEN Result([g EXCEPT !.x = player], Ok)
    ELSE Result([g EXCEPT !.o = player, !.status = "IN_PROGRESS"], Ok)

\* _leave with the slot of the player who leaves cleared on a forfeit.
_leave_clearsSlot(g, player) ==
    IF player \notin Range(g.players)
    THEN Result(g, PLAYER_NOT_IN_GAME_MESSAGE)
    ELSE
        LET g1 == [g EXCEPT !.players = Filter(g.players, player)]
        IN  IF Len(g1.players) = 1 /\ g1.status = "IN_PROGRESS"
            THEN Result([g1 EXCEPT !.status = "OVER", !.winner = g1.players[1],
                                   !.x = IF g.x = player THEN Undef ELSE g.x,
                                   !.o = IF g.o = player THEN Undef ELSE g.o], Ok)
            ELSE IF Len(g1.players) = 0
            THEN Result([g1 EXCEPT !.status = "WAITING_TO_START",
                                   !.x = Undef, !.o = Undef], Ok)
            ELSE Result(g1, Ok)

_leave(g, player) ==
    IF player \notin Range(g.players)
    THEN Result(g, PLAYER_NOT_IN_GAME_MESSAGE)
    ELSE
        LET g1 == [g EXCEPT !.players = Filter(g.players, player)]
        IN  IF Len(g1.players) = 1 /\ g1.status = "IN_PROGRESS"
            THEN Result([g1 EXCEPT !.status = "OVER", !.winner = g1.players[1]], Ok)
            ELSE IF Len(g1.players) = 0
            THEN Result([g1 EXCEPT !.status = "WAITING_TO_START",
                                   !.x = Undef, !.o = Undef], Ok)
            ELSE Result(g1, Ok)

\* Game.join: _join, then the player is pushed on the roster.
join(g, player) ==
    LET r == _join(g, player)
    IN  IF r.err # Ok THEN r
        ELSE Result([r.g EXCEPT !.players = Append(r.g.players, player)], Ok)

\* Game.leave: _leave, then the player is filtered out of the roster.
leave(g, player) ==
    LET r == _leave(g, player)
    IN  IF r.err # Ok THEN r
        ELSE Result([r.g EXCEPT !.players = Filter(r.g.players, player)], Ok)

\* end with both slots kept.
end_keepsSlots(g) ==
    [g EXCEPT !.moves = <<>>, !.status = "WAITING_TO_START",
              !.winner = Undef, !.board = EmptyBoard]

\* end with the winner kept.
end_keepsWinner(g) ==
    [g EXCEPT !.moves = <<>>, !.status = "WAITING_TO_START",
              !.x = Undef, !.o = Undef, !.board = EmptyBoard]

end(g) ==
    [g EXCEPT !.moves = <<>>, !.status = "WAITING_TO_START",
              !.x = Undef, !.o = Undef, !.winner = Undef, !.board = EmptyBoard]

\* ------------------------------------------------------------------ area

\* What a handler gives back: the area after it (its reference to the engine, the
\* engine, the history), the error thrown (Ok: none), the number of calls of
\* _emitAreaChanged it made, and the gameID it returned (Undef: none).
Handled(a, g, h, e, n, ret) ==
    [areaGame |-> a, game |-> g, history |-> h, err |-> e, emits |-> n, ret |-> ret]

RECURSIVE findIndex(_, _, _)
\* this._history.findIndex(record => record.gameID === id), from index i on; -1: none
findIndex(h, id, i) ==
    IF i > Len(h) THEN -1
    ELSE IF h[i].gameID = id THEN i
    ELSE findIndex(h, id, i + 1)

RECURSIVE find(_, _)
\* this._game.players.find(p => p.id !== id); Undef: none
find(s, id) ==
    IF s = <<>> THEN Undef
    ELSE IF Head(s) # id THEN Head(s)
    ELSE find(Tail(s), id)

\* _handleGameOver with a record pushed whether or not the history has one of the game.
_handleGameOver_alwaysPushes(g, h, player) ==
    IF g.status # "OVER" THEN h
    ELSE
        LET winnerID == g.winner
            otherPlayer == find(g.players, player)
        IN  IF otherPlayer # Undef
            THEN LET newScores ==
                         [userName \in {UserName(player), UserName(otherPlayer)} |->
                             IF userName = UserName(otherPlayer)
                             THEN (IF winnerID = otherPlayer THEN 1 ELSE 0)
                             ELSE (IF winnerID = player THEN 1 ELSE 0)]
                 IN  Append(h, [gameID |-> GameId, scores |-> newScores])
            ELSE h

_handleGameOver(g, h, player) ==
    IF g.status # "OVER" THEN h
    ELSE
        LET winnerID == g.winner
            otherPlayer == find(g.players, player)
            existingGameResultIndex == findIndex(h, GameId, 1)
        IN  IF existingGameResultIndex # -1
            THEN LET oldScores == h[existingGameResultIndex].scores
                     newScores ==
                         [userName \in DOMAIN oldScores |->
                             IF winnerID = player /\ userName = UserName(player)
                             THEN oldScores[userName] + 1
                             ELSE oldScores[userName]]
                 IN  [h EXCEPT ![existingGameResultIndex].scores = newScores]
            ELSE IF otherPlayer # Undef
            THEN LET newScores ==
                         [userName \in {UserName(player), UserName(otherPlayer)} |->
                             IF userName = UserName(otherPlayer)
                             THEN (IF winnerID = otherPlayer THEN 1 ELSE 0)
                             ELSE (IF winnerID = player THEN 1 ELSE 0)]
                 IN  Append(h, [gameID |-> GameId, scores |-> newScores])
            ELSE h

_handleJoinGame(a, g, h, player) ==
    IF a = Undef
    THEN Handled(GameId, NewGame, h, Ok, 1, GameId)
    ELSE
        LET r == join(g, player)
        IN  IF r.err # Ok THEN Handled(a, r.g, h, r.err, 0, Undef)
            ELSE Handled(a, r.g, h, Ok, 1, a)

\* _handleGameMove without its check of the command's gameID.
_handleGameMove_noIdCheck(a, g, h, player, gameID, move) ==
    IF a = Undef THEN Handled(a, g, h, GAME_NOT_IN_PROGRESS_MESSAGE, 0, Undef)
    ELSE
        LET r == applyMove(g, player, move)
        IN  IF r.err # Ok THEN Handled(a, r.g, h, r.err, 0, Undef)
            ELSE Handled(a, r.g, _handleGameOver(r.g, h, player), Ok, 1, Undef)

_handleGameMove(a, g, h, player, gameID, move) ==
    IF a = Undef THEN Handled(a, g, h, GAME_NOT_IN_PROGRESS_MESSAGE, 0, Undef)
    ELSE IF gameID # a THEN Handled(a, g, h, GAME_ID_MISSMATCH_MESSAGE, 0, Undef)
    ELSE
        LET r == applyMove(g, player, move)
        IN  IF r.err # Ok THEN Handled(a, r.g, h, r.err, 0, Undef)
            ELSE Handled(a, r.g, _handleGameOver(r.g, h, player), Ok, 1, Undef)

\* _handleLeaveGame without its call of _emitAreaChanged.
_handleLeaveGame_noEmit(a, g, h, player, gameID) ==
    IF a = Undef THEN Handled(a, g, h, GAME_NOT_IN_PROGRESS_MESSAGE, 0, Undef)
    ELSE IF gameID # a THEN Handled(a, g, h, GAME_ID_MISSMATCH_MESSAGE, 0, Undef)
    ELSE
        LET r == leave(g, player)
        IN  IF r.err # Ok THEN Handled(a, r.g, h, r.err, 0, Undef)
            ELSE LET g1 == IF Len(r.g.players) = 1 THEN end(r.g) ELSE r.g
                 IN  Handled(a, g1, _handleGameOver(g1, h, player), Ok, 0, Undef)

_handleLeaveGame(a, g, h, player, gameID) ==
    IF a = Undef THEN Handled(a, g, h, GAME_NOT_IN_PROGRESS_MESSAGE, 0, Undef)
    ELSE IF gameID # a THEN Handled(a, g, h, GAME_ID_MISSMATCH_MESSAGE, 0, Undef)
    ELSE
        LET r == leave(g, player)
        IN  IF r.err # Ok THEN Handled(a, r.g, h, r.err, 0, Undef)
            ELSE LET g1 == IF Len(r.g.players) = 1 THEN end(r.g) ELSE r.g
                 IN  Handled(a, g1, _handleGameOver(g1, h, player), Ok, 1, Undef)

handleCommand(a, g, h, type, player, gameID, move) ==
    CASE type = "JoinGame" -> _handleJoinGame(a, g, h, player)
      [] type = "GameMove" -> _handleGameMove(a, g, h, player, gameID, move)
      [] type = "LeaveGame" -> _handleLeaveGame(a, g, h, player, gameID)
      [] OTHER -> Handled(a, g, h, INVALID_COMMAND_MESSAGE, 0, Undef)

\* ------------------------------------------------------------------ inputs

\* The gameID of a command: the engine's identity, or another.
GameIds == {GameId, OtherId}

\* The first of the cells 0..8 (row-major) that is not in taken.
FirstFree(taken) == CHOOSE k \in 0..9 : k \notin taken /\ \A j \in 0..(k - 1) : j \in taken

RECURSIVE SkipsFrom(_, _, _)
SkipsFrom(moves, i, taken) ==
    IF i > Len(moves) THEN 0
    ELSE LET k == 3 * moves[i].row + moves[i].col
         IN  (IF k = FirstFree(taken) THEN 0 ELSE 1) + SkipsFrom(moves, i + 1, taken \cup {k})

\* The number of moves of the log made at another cell than the first empty one.
Skips(moves) == SkipsFrom(moves, 1, {})

Taken(board) == {k \in 0..8 : board[k \div 3][k % 3] # ""}

\* The cells a move may target: one below and one above the range, the first
\* occupied cell, the first empty cell and, while the log has fewer than MaxSkips
\* skips, every other empty cell.
Targets(g) ==
    {<<-1, 0>>, <<1, 3>>} \cup
    {rc \in Rows \X Cols :
        LET k == 3 * rc[1] + rc[2]
        IN  \/ k = FirstFree(Taken(g.board))
            \/ k = FirstFree((0..8) \ Taken(g.board))
            \/ k \notin Taken(g.board) /\ Skips(g.moves) < MaxSkips}

Moves(g) ==
    {[row |-> rc[1], col |-> rc[2], gamePiece |-> gp] : rc \in Targets(g), gp \in {"X", "O"}}

ScoresWithin(h) ==
    \A i \in 1..Len(h) : \A n \in DOMAIN h[i].scores : h[i].scores[n] <= MaxScore

\* ------------------------------------------------------------------ the area's behaviour

NoCall == [op |-> "none", err |-> Ok, emits |-> 0, ret |-> Undef]

Init ==
    /\ areaGame = Undef
    /\ game = NewGame
    /\ history = <<>>
    /\ last = NoCall

\* One call of handleCommand, to its return or its throw.
Command(type, player, gameID, move) ==
    \E r \in {handleCommand(areaGame, game, history, type, player, gameID, move)} :
        /\ ScoresWithin(r.history)
        /\ Len(r.game.moves) <= MaxMoves
        /\ areaGame' = r.areaGame
        /\ game' = r.game
        /\ history' = r.history
        /\ last' = [op |-> type, err |-> r.err, emits |-> r.emits, ret |-> r.ret]

NoMove == [row |-> 0, col |-> 0, gamePiece |-> "X"]

JoinGame == \E p \in Players : Command("JoinGame", p, Undef, NoMove)

GameMove ==
    \/ \E m \in Moves(game) : \E p \in Players : Command("GameMove", p, GameId, m)
    \/ \E p \in Players : Command("GameMove", p, OtherId, NoMove)

LeaveGame == \E p \in Players : \E id \in GameIds : Command("LeaveGame", p, id, NoMove)

OtherCommand == \E p \in Players : Command("Other", p, Undef, NoMove)

Next == JoinGame \/ GameMove \/ LeaveGame \/ OtherCommand

Spec == Init /\ [][Next]_vars

\* ------------------------------------------------------------------ the engine's behaviour

\* The engine on its own: constructed, then join, leave and applyMove called on it
\* for the two players of a match, to the end of the match.
Callers == {"p1", "p2"}

EngineInit ==
    /\ areaGame = GameId
    /\ game = NewGame
    /\ history = <<>>
    /\ last = NoCall

\* One call of an engine method, to its return or its throw.
Call(op, result) ==
    \E r \in {result} :
        /\ game' = r.g
        /\ last' = [op |-> op, err |-> r.err, emits |-> 0, ret |-> Undef]
        /\ UNCHANGED <<areaGame, history>>

Join == \E p \in Callers : Call("join", join(game, p))

Leave == \E p \in Callers : Call("leave", leave(game, p))

ApplyMove == \E m \in Moves(game) : \E p \in Callers : Call("applyMove", applyMove(game, p, m))

EngineNext == Join \/ Leave \/ ApplyMove

EngineSpec == EngineInit /\ [][EngineNext]_vars

\* ------------------------------------------------------------------ claims

\* Every move a caller can send: a cell of the board or one off each of its sides,
\* and either mark.
AnyCell == (Rows \X Cols) \cup {<<-1, 0>>, <<3, 2>>, <<0, -1>>, <<2, 3>>}
AnyMove == {[row |-> rc[1], col |-> rc[2], gamePiece |-> gp] : rc \in AnyCell, gp \in {"X", "O"}}
InRange(m) == m.row \in Rows /\ m.col \in Cols

\* The 8 lines of the board, and a full rescan of them for one mark.
Lines ==
    {{<<r, c>> : c \in Cols} : r \in Rows} \cup
    {{<<r, c>> : r \in Rows} : c \in Cols} \cup
    {{<<0, 0>>, <<1, 1>>, <<2, 2>>}, {<<0, 2>>, <<1, 1>>, <<2, 0>>}}
HasLine(board, mark) == \E l \in Lines : \A rc \in l : board[rc[1]][rc[2]] = mark

\* The holder of the mark whose turn it is: X at an even log length, O at an odd one.
TurnHolder(g) == IF Len(g.moves) % 2 = 0 THEN g.x ELSE g.o

LastMove == game.moves[Len(game.moves)]

\* C1: while the match is in progress an applyMove is accepted only from the holder
\* of the mark whose turn it is (X at an even log length, O at an odd one), an
\* in-range applyMove from anyone else fails with MOVE_NOT_YOUR_TURN_MESSAGE, and
\* the marks on the board alternate X, O, X, ... in the order of the move log.
C1_TurnAlternation ==
    /\ \A p \in Players : \A m \in AnyMove :
          (game.status = "IN_PROGRESS" /\ InRange(m)) =>
              \A r \in {applyMove(game, p, m)} :
                  /\ r.err = Ok => p = TurnHolder(game)
                  /\ p # TurnHolder(game) => r.err = MOVE_NOT_YOUR_TURN_MESSAGE
    /\ \A i \in 1..Len(game.moves) :
          game.board[game.moves[i].row][game.moves[i].col] = IF i % 2 = 1 THEN "X" ELSE "O"

\* C2: no applyMove changes a cell that is not empty; an applyMove that targets
\* such a cell is rejected, with BOARD_POSITION_NOT_EMPTY_MESSAGE unless the status
\* check or a turn check rejects it first.
C2_NoCellOverwritten ==
    \A p \in Players : \A m \in AnyMove :
        \A r \in {applyMove(game, p, m)} :
            /\ \A row \in Rows : \A col \in Cols :
                  game.board[row][col] # "" => r.g.board[row][col] = game.board[row][col]
            /\ (InRange(m) /\ game.board[m.row][m.col] # "") =>
                  /\ r.g.board = game.board
                  /\ r.err \in {GAME_OVER_MESSAGE, GAME_NOT_IN_PROGRESS_MESSAGE,
                                MOVE_NOT_YOUR_TURN_MESSAGE, BOARD_POSITION_NOT_EMPTY_MESSAGE}

C2_Witness ==
    /\ last.op = "applyMove"
    /\ last.err = BOARD_POSITION_NOT_EMPTY_MESSAGE
    /\ Len(game.moves) >= 2

\* C3: after every accepted applyMove the incremental win check for the mark placed,
\* at the cell played, agrees with a full rescan of the 8 lines for that mark.
C3_WinCheckAgreesWithRescan ==
    \A p \in Players : \A m \in AnyMove :
        \A r \in {applyMove(game, p, m)} :
            r.err = Ok =>
                LET mark == r.g.board[m.row][m.col]
                IN  /\ mark \in {"X", "O"}
                    /\ _checkForWin(r.g.board, m.row, m.col, mark) <=> HasLine(r.g.board, mark)

C3_Witness ==
    /\ last.op = "applyMove"
    /\ last.err = Ok
    /\ HasLine(game.board, game.board[LastMove.row][LastMove.col])
    /\ ~ HasLine([game.board EXCEPT ![LastMove.row][LastMove.col] = ""],
                 game.board[LastMove.row][LastMove.col])

\* C4: an accepted applyMove that completes a line of the mover's mark and fills the
\* ninth cell ends the match as a win of the mover; an applyMove ends the match with
\* no winner only when the board is full and the move completed no line.
C4_WinBeforeDraw ==
    \A p \in Players : \A m \in AnyMove :
        \A r \in {applyMove(game, p, m)} :
            r.err = Ok =>
                LET won == HasLine(r.g.board, r.g.board[m.row][m.col])
                IN  /\ (won /\ _checkForDraw(r.g.board)) =>
                          (r.g.status = "OVER" /\ r.g.winner = p)
                    /\ (r.g.status = "OVER" /\ r.g.winner = Undef) =>
                          (_checkForDraw(r.g.board) /\ ~won)

\* The fields a failing command must leave alone.
SameMatch(g1, g2) ==
    /\ g1.board = g2.board
    /\ g1.moves = g2.moves
    /\ g1.status = g2.status
    /\ g1.x = g2.x
    /\ g1.o = g2.o

CommandTypes == {"JoinGame", "GameMove", "LeaveGame", "Other"}

\* C5: a join, a leave, an applyMove or a handleCommand that throws leaves the
\* board, the move log, the status and both slots as they were.
C5_FailureLeavesMatch ==
    \A p \in Players :
        /\ \A r \in {join(game, p), leave(game, p)} :
              r.err # Ok => SameMatch(r.g, game)
        /\ \A m \in AnyMove : \A r \in {applyMove(game, p, m)} :
              r.err # Ok => SameMatch(r.g, game)
        /\ \A t \in CommandTypes : \A id \in GameIds :
              \A r \in {handleCommand(areaGame, game, history, t, p, id, NoMove)} :
                  r.err # Ok => (SameMatch(r.game, game) /\ r.areaGame = areaGame)
        /\ \A m \in AnyMove :
              \A r \in {handleCommand(areaGame, game, history, "GameMove", p, GameId, m)} :
                  r.err # Ok => (SameMatch(r.game, game) /\ r.areaGame = areaGame)

C5_Witness ==
    /\ last.op = "JoinGame"
    /\ last.err = GAME_FULL_MESSAGE
    /\ Len(game.moves) > 0

\* C6: a rejected applyMove writes nothing: whatever call follows it (a join, a
\* leave, an applyMove) has the outcome, and gives the engine, it has without it.
C6_RejectedMoveWritesNothing ==
    \A p \in Players : \A m \in AnyMove :
        \A r \in {applyMove(game, p, m)} :
            r.err # Ok =>
                /\ r.g = game
                /\ \A q \in Players :
                      /\ join(r.g, q) = join(game, q)
                      /\ leave(r.g, q) = leave(game, q)
                      /\ \A n \in AnyMove : applyMove(r.g, q, n) = applyMove(game, q, n)

\* C7: on the engine, a leave by one of the two joined players of a match in progress
\* ends the match with the other one as winner, and leaves the move log, the board
\* and both slots as they were.
C7_LeaveForfeits ==
    \A p \in Players :
        (game.status = "IN_PROGRESS" /\ Len(game.players) = 2 /\ p \in Range(game.players)) =>
            \A r \in {leave(game, p)} :
                /\ r.err = Ok
                /\ r.g.status = "OVER"
                /\ r.g.winner \in Range(game.players) \ {p}
                /\ r.g.players = <<r.g.winner>>
                /\ r.g.moves = game.moves
                /\ r.g.board = game.board
                /\ r.g.x = game.x
                /\ r.g.o = game.o

C7_Witness ==
    /\ last.op = "leave"
    /\ last.err = Ok
    /\ game.status = "OVER"
    /\ Len(game.moves) > 0
    /\ game.players = <<game.o>>
    /\ game.winner = game.o
    /\ game.x \in Players

\* A LeaveGame command of p that returns, handled while the match is in progress,
\* after which one player is in the roster.
ForfeitByLeaveGame(p) ==
    /\ game.status = "IN_PROGRESS"
    /\ Command("LeaveGame", p, GameId, NoMove)
    /\ last'.err = Ok
    /\ Len(game'.players) = 1

\* C8: after a LeaveGame command that leaves one player in a match that was in
\* progress, the status is OVER and the winner is the player who remains.
C8_ForfeitSurvivesEnd ==
    [][\A p \in Players :
          ForfeitByLeaveGame(p) =>
              (game'.status = "OVER" /\ game'.winner = game'.players[1])]_vars

\* C9: after a LeaveGame command that leaves one player in a match that was in
\* progress, the history has a record of the engine's identity that credits the
\* player who remains with a win.
C9_ForfeitRecorded ==
    [][\A p \in Players :
          ForfeitByLeaveGame(p) =>
              \E i \in 1..Len(history') :
                  /\ history'[i].gameID = GameId
                  /\ UserName(game'.players[1]) \in DOMAIN history'[i].scores
                  /\ history'[i].scores[UserName(game'.players[1])] >= 1]_vars

\* C10: after a JoinGame command that returns, handled while the area has no engine,
\* there is an engine, the sender holds X and is in its roster, the status is
\* WAITING_TO_START and the gameID returned is the engine's identity.
C10_FirstJoinGameJoins ==
    [][\A p \in Players :
          (areaGame = Undef /\ Command("JoinGame", p, Undef, NoMove) /\ last'.err = Ok) =>
              /\ areaGame' = GameId
              /\ last'.ret = GameId
              /\ game'.status = "WAITING_TO_START"
              /\ game'.x = p
              /\ p \in Range(game'.players)]_vars

\* C11: a join that returns on an engine with no slot assigned gives the joiner X and
\* leaves the status WAITING_TO_START; one on an engine with only X assigned gives
\* the joiner O and sets the status IN_PROGRESS; no join changes a slot that is held.
C11_JoinAssignsSlots ==
    \A p \in Players :
        \A r \in {join(game, p)} :
            /\ game.x # Undef => r.g.x = game.x
            /\ game.o # Undef => r.g.o = game.o
            /\ r.err = Ok =>
                  /\ (game.x = Undef /\ game.o = Undef) =>
                        /\ r.g.x = p
                        /\ r.g.o = Undef
                        /\ r.g.status = "WAITING_TO_START"
                  /\ (game.x # Undef /\ game.o = Undef) =>
                        /\ r.g.o = p
                        /\ r.g.status = "IN_PROGRESS"
                  /\ p \in Range(r.g.players)

C11_Witness ==
    /\ last.op = "join"
    /\ last.err = Ok
    /\ game.status = "IN_PROGRESS"
    /\ game.x = "p2"
    /\ game.o = "p1"
    /\ game.moves = <<>>

\* The outcome of an applyMove: the error, and the match but for the payload logged.
Outcome(r) == <<r.err, r.g.board, r.g.status, r.g.winner, Len(r.g.moves)>>

OtherPiece(m) == [m EXCEPT !.gamePiece = IF m.gamePiece = "X" THEN "O" ELSE "X"]

\* C12: an accepted applyMove writes the mark of the slot its sender holds, and two
\* applyMove calls that differ only in the mark of the payload have the same outcome.
C12_PayloadMarkIgnored ==
    \A p \in Players : \A m \in AnyMove :
        \A r \in {applyMove(game, p, m)} :
            /\ r.err = Ok =>
                  /\ p \in {game.x, game.o}
                  /\ r.g.board[m.row][m.col] = IF p = game.x THEN "X" ELSE "O"
            /\ Outcome(applyMove(game, p, OtherPiece(m))) = Outcome(r)

\* C13: an applyMove on a match that is not in progress, waiting to start or over,
\* fails with GAME_NOT_IN_PROGRESS_MESSAGE, whatever the move.
C13_NotInProgressRejected ==
    \A p \in Players : \A m \in AnyMove :
        game.status # "IN_PROGRESS" =>
            applyMove(game, p, m).err = GAME_NOT_IN_PROGRESS_MESSAGE

\* C14: a join by a player who is not in the match, on a match in progress with both
\* slots assigned, fails with GAME_FULL_MESSAGE and leaves the engine as it was.
C14_ThirdJoinRejected ==
    \A p \in Players :
        (/\ game.status = "IN_PROGRESS"
         /\ game.x # Undef
         /\ game.o # Undef
         /\ p \notin Range(game.players)) =>
            \A r \in {join(game, p)} :
                /\ r.err = GAME_FULL_MESSAGE
                /\ r.g = game

C14_Witness ==
    /\ last.op = "JoinGame"
    /\ last.err = GAME_FULL_MESSAGE
    /\ game.status = "IN_PROGRESS"
    /\ game.moves = <<>>
    /\ Len(game.players) = 2

HoldsSlot(g, p) == p = g.x \/ p = g.o

\* C15: a join fails with PLAYER_ALREADY_IN_GAME_MESSAGE only for a player who holds
\* a slot: once the area has its engine, a player who holds no slot is accepted by
\* join, and by the JoinGame command, on a match that is not over and not full.
C15_AlreadyInGameOnlyForSlotHolder ==
    \A p \in Players :
        (areaGame # Undef /\ ~ HoldsSlot(game, p)) =>
            /\ join(game, p).err # PLAYER_ALREADY_IN_GAME_MESSAGE
            /\ (game.status # "OVER" /\ (game.x = Undef \/ game.o = Undef)) =>
                  /\ join(game, p).err = Ok
                  /\ handleCommand(areaGame, game, history, "JoinGame", p, Undef, NoMove).err = Ok

\* The moves a GameMove command is tried with where the engine is not to be called.
SomeMoves == {m \in AnyMove : m.row = m.col}

\* C16: a GameMove or a LeaveGame command fails with GAME_NOT_IN_PROGRESS_MESSAGE
\* when the area has no engine, and with GAME_ID_MISSMATCH_MESSAGE when its gameID
\* is not the engine's identity; the engine and the history are then left as they were.
C16_NoEngineOrWrongId ==
    \A p \in Players : \A id \in GameIds : \A m \in SomeMoves :
        \A r \in {handleCommand(areaGame, game, history, "GameMove", p, id, m),
                  handleCommand(areaGame, game, history, "LeaveGame", p, id, m)} :
            /\ areaGame = Undef =>
                  /\ r.err = GAME_NOT_IN_PROGRESS_MESSAGE
                  /\ r.game = game /\ r.history = history /\ r.areaGame = Undef
            /\ (areaGame # Undef /\ id # areaGame) =>
                  /\ r.err = GAME_ID_MISSMATCH_MESSAGE
                  /\ r.game = game /\ r.history = history /\ r.areaGame = areaGame

C16_Witness ==
    /\ last.op = "GameMove"
    /\ last.err = GAME_ID_MISSMATCH_MESSAGE
    /\ game.status = "IN_PROGRESS"
    /\ Len(game.moves) = 1

\* C17: when the status is WAITING_TO_START fewer than two slots are assigned; when
\* it is IN_PROGRESS both slots are assigned, to two different players; no player
\* holds both slots.
C17_StatusAndSlots ==
    /\ game.status = "WAITING_TO_START" => (game.x = Undef \/ game.o = Undef)
    /\ game.status = "IN_PROGRESS" =>
          (game.x \in Players /\ game.o \in Players /\ game.x # game.o)
    /\ game.x # Undef => game.x # game.o

C17_Witness ==
    /\ last.op = "JoinGame"
    /\ last.err = Ok
    /\ game.status = "IN_PROGRESS"
    /\ game.x = "p3"
    /\ game.o = "p1"

\* C18: whenever the status is IN_PROGRESS no line of the board is complete for
\* either mark and at least one cell is empty.
C18_InProgressNotTerminal ==
    game.status = "IN_PROGRESS" =>
        /\ ~ HasLine(game.board, "X")
        /\ ~ HasLine(game.board, "O")
        /\ ~ _checkForDraw(game.board)

\* C19: a winner is present only when the status is OVER.
C19_WinnerOnlyWhenOver ==
    game.winner # Undef => game.status = "OVER"

\* C20: the roster of the engine holds at most 2 players.
C20_RosterAtMostTwo ==
    Len(game.players) <= 2

\* C21: an accepted applyMove appends its move to the move log and leaves the earlier
\* entries as they were, a rejected applyMove, a join and a leave leave the log as it
\* was, and the log has as many moves as applyMove calls were accepted: one for each
\* cell of the board that is not empty.
C21_MoveLogAppendOnly ==
    /\ Len(game.moves) = Cardinality(Taken(game.board))
    /\ \A p \in Players :
          /\ \A m \in AnyMove : \A r \in {applyMove(game, p, m)} :
                /\ r.err = Ok => r.g.moves = Append(game.moves, m)
                /\ r.err # Ok => r.g.moves = game.moves
          /\ join(game, p).g.moves = game.moves
          /\ leave(game, p).g.moves = game.moves

C21_Witness ==
    /\ last.op = "applyMove"
    /\ last.err = Ok
    /\ game.status = "IN_PROGRESS"
    /\ Len(game.moves) = 6

\* C22: on the engine, after a leave that empties the roster the status is
\* WAITING_TO_START and both slots are unassigned, and a join by any player then
\* returns and gives that player X.
C22_EmptiedEngineIsFresh ==
    \A p \in Players :
        \A r \in {leave(game, p)} :
            (r.err = Ok /\ r.g.players = <<>>) =>
                /\ r.g.status = "WAITING_TO_START"
                /\ r.g.x = Undef
                /\ r.g.o = Undef
                /\ \A q \in Players :
                      \A j \in {join(r.g, q)} :
                          /\ j.err = Ok
                          /\ j.g.x = q
                          /\ j.g.status = "WAITING_TO_START"

\* Whether a history has a record of the engine's identity, and the first such record.
HasRecord(h) == findIndex(h, GameId, 1) # -1
RecordOf(h) == h[findIndex(h, GameId, 1)]

\* C23: a GameMove command that ends the match while the history has no record of
\* the engine's identity appends one record of that identity, with a score for the
\* sender and one for the other holder of a slot, the holders of X and O: 1 for the
\* winner, 0 otherwise.
C23_NewRecordOfMatch ==
    \A p \in Players : \A m \in Moves(game) :
        \A r \in {handleCommand(areaGame, game, history, "GameMove", p, GameId, m)} :
            (r.err = Ok /\ r.game.status = "OVER" /\ ~ HasRecord(history)) =>
                /\ Len(r.history) = Len(history) + 1
                /\ HasRecord(r.history)
                /\ p \in {game.x, game.o}
                /\ DOMAIN RecordOf(r.history).scores = {UserName(game.x), UserName(game.o)}
                /\ \A q \in {game.x, game.o} :
                      RecordOf(r.history).scores[UserName(q)] =
                          IF r.game.winner = q THEN 1 ELSE 0

\* C24: no two records of the history have the same gameID.
C24_OneRecordPerGame ==
    \A i \in 1..Len(history) : \A j \in 1..Len(history) :
        history[i].gameID = history[j].gameID => i = j

C24_Witness ==
    /\ Len(history) = 1
    /\ last.op = "GameMove"
    /\ last.err = Ok
    /\ game.status = "OVER"
    /\ \E n \in DOMAIN history[1].scores : game.winner # Undef /\ n # UserName(game.winner)
                                            /\ history[1].scores[n] = 1

\* C25: the history changes only in a command that takes the status to OVER: a
\* command handled while the status is OVER, and after which it still is, leaves
\* every score as it was.
C25_FoldOncePerMatch ==
    \A p \in Players : \A t \in CommandTypes :
        \A r \in {handleCommand(areaGame, game, history, t, p, GameId, NoMove)} :
            (game.status = "OVER" /\ r.game.status = "OVER") => r.history = history

\* C26: a handleCommand call that returns calls _emitAreaChanged exactly once, and
\* one that throws does not call it.
C26_EmitOncePerSuccess ==
    /\ last.op # "none" => last.emits = IF last.err = Ok THEN 1 ELSE 0
    /\ \A p \in Players : \A t \in CommandTypes : \A id \in GameIds : \A m \in SomeMoves :
          \A r \in {handleCommand(areaGame, game, history, t, p, id, m)} :
              r.emits = IF r.err = Ok THEN 1 ELSE 0

C26_Witness ==
    /\ last.op = "LeaveGame"
    /\ last.err = Ok
    /\ last.emits = 1
    /\ game.status = "IN_PROGRESS"
    /\ Len(game.players) = 2

\* A match in progress with two holders of a slot, an empty board and an empty log.
Restarted(g) ==
    /\ g.status = "IN_PROGRESS"
    /\ g.x \in Players
    /\ g.o \in Players
    /\ g.x # g.o
    /\ g.board = EmptyBoard
    /\ g.moves = <<>>

RECURSIVE CanRestart(_, _, _, _)
\* Some sequence of at most k JoinGame and LeaveGame commands that return takes the
\* area to a match that is Restarted.
CanRestart(a, g, h, k) ==
    \/ Restarted(g)
    \/ /\ k > 0
       /\ \E t \in {"LeaveGame", "JoinGame"} : \E p \in Players :
             \E r \in {handleCommand(a, g, h, t, p, GameId, NoMove)} :
                 r.err = Ok /\ CanRestart(r.areaGame, r.game, r.history, k - 1)

\* C27: from every state of the area in which the match is over, some sequence of
\* JoinGame and LeaveGame commands leads to a match in progress with two holders
\* of a slot, an empty board and an empty move log.
C27_OverIsNotFinal ==
    game.status = "OVER" => CanRestart(areaGame, game, history, MaxRestart)

C27_Witness ==
    /\ Restarted(game)
    /\ last.op = "JoinGame"
    /\ Len(history) = 1
    /\ game.prev # ""

\* C28: the checks of join are made in order: on a match that is over it fails with
\* GAME_OVER_MESSAGE, also for a player in the roster and with both slots assigned;
\* otherwise for a player in the roster it fails with PLAYER_ALREADY_IN_GAME_MESSAGE,
\* also with both slots assigned; GAME_FULL_MESSAGE is thrown only when the match is
\* not over and the player is not in the roster.
C28_JoinChecksInOrder ==
    \A p \in Players :
        \A r \in {join(game, p)} :
            /\ game.status = "OVER" => r.err = GAME_OVER_MESSAGE
            /\ (game.status # "OVER" /\ p \in Range(game.players)) =>
                  r.err = PLAYER_ALREADY_IN_GAME_MESSAGE
            /\ r.err = GAME_FULL_MESSAGE =>
                  (game.status # "OVER" /\ p \notin Range(game.players))

C28_Witness ==
    /\ last.op = "join"
    /\ last.err = GAME_OVER_MESSAGE
    /\ game.status = "OVER"
    /\ game.x # Undef
    /\ game.o # Undef
    /\ Len(game.players) = 2
    /\ Len(game.moves) > 0

\* The mark whose turn it is: X at an even length of the move log, O at an odd one.
TurnMark(g) == IF Len(g.moves) % 2 = 0 THEN "X" ELSE "O"

\* C29: while the match is in progress an applyMove at a cell of the board whose
\* payload mark is not the mark whose turn it is fails with
\* MOVE_NOT_YOUR_TURN_MESSAGE, whoever sends it.
C29_WrongPayloadMarkRejected ==
    \A p \in Players : \A m \in AnyMove :
        (game.status = "IN_PROGRESS" /\ InRange(m) /\ m.gamePiece # TurnMark(game)) =>
            applyMove(game, p, m).err = MOVE_NOT_YOUR_TURN_MESSAGE

\* C30: end() empties the board and the move log, sets the status WAITING_TO_START,
\* clears the winner and both slots, and leaves the roster as it was.
C30_EndResetsMatch ==
    \A e \in {end(game)} :
        /\ e.board = EmptyBoard
        /\ e.moves = <<>>
        /\ e.status = "WAITING_TO_START"
        /\ e.winner = Undef
        /\ e.x = Undef
        /\ e.o = Undef
        /\ e.players = game.players

C30_Witness ==
    /\ last.op = "LeaveGame"
    /\ last.err = Ok
    /\ game.status = "WAITING_TO_START"
    /\ Len(game.players) = 1
    /\ game.x = Undef
    /\ game.board = EmptyBoard
    /\ game.prev # ""

\* C31: the move log never holds more than 9 moves, and an accepted applyMove that
\* fills the last empty cell is the ninth of the log and leaves the status OVER.
C31_MatchEndsWithinNineMoves ==
    /\ Len(game.moves) <= 9
    /\ \A p \in Players : \A m \in AnyMove :
          \A r \in {applyMove(game, p, m)} :
              (r.err = Ok /\ Cardinality(Taken(r.g.board)) = 9) =>
                  /\ Len(r.g.moves) = 9
                  /\ r.g.status = "OVER"

C31_Witness ==
    /\ last.op = "applyMove"
    /\ last.err = Ok
    /\ Len(game.moves) = 9
    /\ game.status = "OVER"
    /\ ~ HasLine(game.board, "X")
    /\ ~ HasLine(game.board, "O")

\* C32: while the match is in progress, an applyMove by the holder of the mark whose
\* turn it is, with that mark in its payload, at an empty cell of the board, is
\* accepted.
C32_TurnHolderNotLockedOut ==
    \A p \in Players : \A m \in AnyMove :
        (/\ game.status = "IN_PROGRESS"
         /\ InRange(m)
         /\ p = TurnHolder(game)
         /\ m.gamePiece = TurnMark(game)) =>
            (game.board[m.row][m.col] = "" => applyMove(game, p, m).err = Ok)

\* C33: a winner is one of the two holders of a slot, and an applyMove is accepted
\* only from a holder of a slot.
C33_WinnerHoldsSlot ==
    /\ game.winner # Undef => game.winner \in {game.x, game.o}
    /\ \A p \in Players : \A m \in AnyMove :
          applyMove(game, p, m).err = Ok => p \in {game.x, game.o}

\* C34: the board has as many cells that are not empty as the move log has moves,
\* and the cell of every move of the log holds the mark recorded in that move.
C34_BoardAgreesWithLog ==
    /\ Cardinality(Taken(game.board)) = Len(game.moves)
    /\ \A i \in 1..Len(game.moves) :
          game.board[game.moves[i].row][game.moves[i].col] = game.moves[i].gamePiece

====
